---- MODULE Spec2Model ----
(***************************************************************************)
(* american fuzzy lop, LLVM-mode instrumentation pass                      *)
(* (llvm_mode/afl-llvm-pass.so.cc).                                        *)
(*                                                                         *)
(* Two sides are modelled:                                                 *)
(*  - the pass itself: the AFLCoverage constructor (whitelist loading) and *)
(*    runOnModule (ratio parsing, global declaration, the per-block loop   *)
(*    with the whitelist filter, the density draw and the emitted code);   *)
(*  - the instruction sequence the pass emits into every admitted block,   *)
(*    executed by the instrumented program: sequentially (one action per   *)
(*    block execution) and by several threads (one action per emitted      *)
(*    load/store).                                                         *)
(* Strings are sequences of one-character strings.                         *)
(***************************************************************************)
EXTENDS Integers, Sequences, FiniteSets, TLC

VARIABLES
    \* ---- the pass (compile time)
    pc,             \* "ctor" | "ready" | "loop" | "done" | "fatal"
    envWhitelist,   \* AFL_INST_WHITELIST: unset, or the file it names
    envRatio,       \* AFL_INST_RATIO: unset, or its string
    myWhitelist,    \* AFLCoverage::myWhitelist
    inst_ratio,     \* runOnModule local
    globals,        \* globals declared in the module (set of names)
    M,              \* the module: sequence of blocks [loc, code]
    bbi,            \* number of blocks the loop has visited
    inst_blocks,    \* runOnModule local
    run,            \* which run of the engine this is (1 or 2)
    firstPositions, \* block positions instrumented by the first run
    \* ---- the instrumented program (run time), sequential
    prev_loc,       \* __afl_prev_loc, 16 bits
    bitmap,         \* __afl_area_ptr[]: touched cells -> byte (others are 0)
    hits,           \* history: cell -> number of executions that computed it
    edges,          \* history: the executions seen, as [after, cur, edge]
    body,           \* the admitted blocks (their cur_loc) the program cycles through
    nexec,          \* number of block executions so far
    lastExec,       \* history: the last execution [prev, cur, edge]
    \* ---- the instrumented program, multi-threaded
    th,             \* per thread: position in the emitted sequence and registers
    traversed,      \* history: edges <<p, cur>> one thread traversed
    written         \* history: cells some thread stored to

cvars == <<pc, envWhitelist, envRatio, myWhitelist, inst_ratio, globals, M,
           bbi, inst_blocks, run, firstPositions>>
rvars == <<prev_loc, bitmap, hits, edges, body, nexec, lastExec>>
tvars == <<th, traversed, written>>
vars  == <<cvars, rvars, tvars>>

---------------------------------------------------------------------------
(* Bounds of the model *)

\* blocks in the module handed to runOnModule
NumBlocks == 2
\* longest cycle of admitted blocks the sequential program runs through
MaxBody == 2
\* block executions of the sequential program
MaxExec == 258
\* threads of the multi-threaded program
NumThreads == 2
\* block executions of each thread
MaxThreadExec == 2

---------------------------------------------------------------------------
(* Program constants *)

\* config.h: MAP_SIZE_POW2 16, MAP_SIZE (1 << MAP_SIZE_POW2)
MAP_SIZE == 65536
\* Int16Ty: width of __afl_prev_loc
PrevLocWidth == 65536
\* Int8Ty: width of a bitmap cell
ByteWidth == 256
\* half the width of an unsigned int
Half == 65536

NoInst == -1

RECURSIVE Xor(_, _)
Xor(a, b) ==
    IF a = 0 THEN b
    ELSE IF b = 0 THEN a
    ELSE (((a % 2) + (b % 2)) % 2) + (2 * Xor(a \div 2, b \div 2))

Range(s) == {s[i] : i \in 1..Len(s)}

---------------------------------------------------------------------------
(* Inputs *)

NL == "\n"

\* AFL_INST_WHITELIST: unset, a path that cannot be opened, or a file's text
NoEnv == [set |-> FALSE, opens |-> FALSE, text |-> <<>>]
Unopenable == [set |-> TRUE, opens |-> FALSE, text |-> <<>>]
File(t) == [set |-> TRUE, opens |-> TRUE, text |-> t]
WhitelistFiles ==
    { <<>>,
      <<"a">>,
      <<"a", NL>>,
      <<NL>>,
      <<"b", "a">>,
      <<"b", NL, "b", "a", NL>>,
      <<"a", "b", NL, "a">>,
      <<"a", "b", "a", NL>> }
WhitelistEnvs == {NoEnv, Unopenable} \cup {File(t) : t \in WhitelistFiles}

\* AFL_INST_RATIO: unset, or a string
RatioStrings ==
    { <<>>,
      <<"0">>,
      <<"1">>,
      <<"5", "0">>,
      <<"1", "0", "0">>,
      <<"1", "0", "1">>,
      <<"x">>,
      <<"5", "x">>,
      <<"-", "1">>,
      <<" ", "7">>,
      <<" ">>,
      <<"4", "2", "9", "4", "9", "6", "7", "2", "9", "7">> }
NoRatio == [set |-> FALSE, text |-> <<>>]
Ratio(s) == [set |-> TRUE, text |-> s]
RatioEnvs == {NoRatio} \cup {Ratio(s) : s \in RatioStrings}

\* Debug location at a block's insertion point: unknown, or the filenames of
\* the original (inlined-from) location and of the location itself.
UnknownLoc == [unknown |-> TRUE, orig |-> <<>>, imm |-> <<>>]
KnownLoc(o, i) == [unknown |-> FALSE, orig |-> o, imm |-> i]
DebugLocs ==
    { UnknownLoc,
      KnownLoc(<<>>, <<>>),
      KnownLoc(<<>>, <<"b", "a">>),
      KnownLoc(<<"b", "a">>, <<"a", "b">>),
      KnownLoc(<<"b">>, <<"a">>) }

RECURSIVE SeqsOf(_, _)
SeqsOf(S, n) ==
    IF n = 0 THEN {<<>>}
    ELSE {Append(s, x) : s \in SeqsOf(S, n - 1), x \in S}

\* code: the cur_loc of the sequence inserted into the block, or NoInst;
\* fate (history): what the loop did with the block
Block(l) == [loc |-> l, code |-> NoInst, fate |-> "unvisited"]
Modules == SeqsOf({Block(l) : l \in DebugLocs}, NumBlocks)

\* outcomes of random() looked at by the model
LocSamples  == {100, 300, 65535, 65536}
RunSamples  == {0, 1, 2, 3, 4, 5, 6, 7, 100, 150, 300, 32767, 32768, 65534, 65535, 65536}
DrawSamples == {0, 4, 5, 49, 50, 99, 100}

---------------------------------------------------------------------------
(* The constructor: loading the whitelist (lines 53-67) *)

\* std::getline on the unread text r: fails when nothing is left; otherwise
\* takes the characters up to the next newline (which it drops) or to the end.
FirstNL(r) == IF \E k \in 1..Len(r) : r[k] = NL
              THEN CHOOSE k \in 1..Len(r) : r[k] = NL /\ \A j \in 1..(k - 1) : r[j] # NL
              ELSE 0

GetLine(r) ==
    IF r = <<>> THEN [ok |-> FALSE, line |-> <<>>, rest |-> <<>>]
    ELSE IF FirstNL(r) = 0 THEN [ok |-> TRUE, line |-> r, rest |-> <<>>]
    ELSE [ok   |-> TRUE,
          line |-> SubSeq(r, 1, FirstNL(r) - 1),
          rest |-> SubSeq(r, FirstNL(r) + 1, Len(r))]

\* getline; while (fileStream) { push_back(line); getline; }
RECURSIVE ReadLines(_)
ReadLines(r) ==
    IF GetLine(r).ok THEN <<GetLine(r).line>> \o ReadLines(GetLine(r).rest)
    ELSE <<>>

AFLCoverage ==
    /\ pc = "ctor"
    /\ IF ~envWhitelist.set
       THEN /\ pc' = "ready"
            /\ myWhitelist' = <<>>
       ELSE IF ~envWhitelist.opens
       THEN /\ pc' = "fatal"          \* report_fatal_error
            /\ myWhitelist' = <<>>
       ELSE /\ pc' = "ready"
            /\ myWhitelist' = ReadLines(envWhitelist.text)
    /\ UNCHANGED <<envWhitelist, envRatio, inst_ratio, globals, M, bbi,
                   inst_blocks, run, firstPositions>>
    /\ UNCHANGED <<rvars, tvars>>

---------------------------------------------------------------------------
(* runOnModule: the instrumentation ratio (lines 104-115) *)

Digits == <<"0", "1", "2", "3", "4", "5", "6", "7", "8", "9">>
IsDigit(c) == \E k \in 1..10 : Digits[k] = c
DigitVal(c) == (CHOOSE k \in 1..10 : Digits[k] = c) - 1

RECURSIVE SkipSpaces(_, _)
SkipSpaces(s, i) ==
    IF i <= Len(s) /\ s[i] = " " THEN SkipSpaces(s, i + 1) ELSE i

\* An unsigned int is kept as two 16-bit halves [hi, lo], so that no
\* intermediate value leaves the range of TLC's integers.
UInt(h, l) == [hi |-> h, lo |-> l]
UIntMulAdd(u, d) ==
    UInt(((u.hi * 10) + (((u.lo * 10) + d) \div Half)) % Half,
         ((u.lo * 10) + d) % Half)
UIntNeg(u) ==
    IF u.lo = 0 THEN UInt((Half - u.hi) % Half, 0)
    ELSE UInt(Half - 1 - u.hi, Half - u.lo)
UIntIsZero(u) == u.hi = 0 /\ u.lo = 0
UIntGreater(u, k) == u.hi > 0 \/ u.lo > k

\* the digits from position i on: how many, and their decimal value in the
\* width of an unsigned int
RECURSIVE ReadDigits(_, _, _, _)
ReadDigits(s, i, n, acc) ==
    IF i <= Len(s) /\ IsDigit(s[i])
    THEN ReadDigits(s, i + 1, n + 1, UIntMulAdd(acc, DigitVal(s[i])))
    ELSE [n |-> n, val |-> acc]

\* sscanf(s, "%u", &x): white space, an optional sign, decimal digits; what
\* follows the digits is left unread.  ret is -1 (EOF) when the input ends
\* before a conversion, 0 when no digit is found, 1 otherwise; the converted
\* number is stored in the unsigned int truncated to its width (a negative
\* one negated in that width).  A number that does not fit is outside what
\* the C standard defines; truncation is what the C libraries do.
ScanUnsigned(s) ==
    LET i0   == SkipSpaces(s, 1)
        sgn  == i0 <= Len(s) /\ s[i0] \in {"+", "-"}
        i1   == IF sgn THEN i0 + 1 ELSE i0
        d    == ReadDigits(s, i1, 0, UInt(0, 0))
        neg  == sgn /\ s[i0] = "-"
    IN  IF i0 > Len(s) THEN [ret |-> -1, val |-> UInt(0, 0)]
        ELSE IF d.n = 0 THEN [ret |-> 0, val |-> UInt(0, 0)]
        ELSE [ret |-> 1, val |-> IF neg THEN UIntNeg(d.val) ELSE d.val]

\* sscanf(...) != 1 || !inst_ratio || inst_ratio > 100
BadRatio(s) ==
    \/ ScanUnsigned(s).ret # 1
    \/ UIntIsZero(ScanUnsigned(s).val)
    \/ UIntGreater(ScanUnsigned(s).val, 100)

GlobalNames == {"__afl_area_ptr", "__afl_prev_loc"}

\* the module a run is handed: any module on the first run, and a fresh copy
\* of the same module on a later one
Fresh(m) == [i \in 1..Len(m) |-> Block(m[i].loc)]
ModuleInputs == IF M = <<>> THEN Modules ELSE {Fresh(M)}

runOnModule(m) ==
    /\ pc = "ready"
    /\ M' = m
    /\ IF envRatio.set /\ BadRatio(envRatio.text)
       THEN /\ pc' = "fatal"          \* FATAL
            /\ UNCHANGED <<inst_ratio, globals, bbi, inst_blocks>>
       ELSE /\ pc' = "loop"
            /\ inst_ratio' = IF ~envRatio.set THEN 100
                             ELSE ScanUnsigned(envRatio.text).val.lo
            /\ globals' = GlobalNames
            /\ bbi' = 0
            /\ inst_blocks' = 0
    /\ UNCHANGED <<envWhitelist, envRatio, myWhitelist, run, firstPositions>>
    /\ UNCHANGED <<rvars, tvars>>

---------------------------------------------------------------------------
(* runOnModule: the whitelist filter (lines 136-176) *)

\* std::string::compare(pos, len, str) == 0
CompareEq(f, pos, len, s) == SubSeq(f, pos + 1, pos + len) = s

\* if (f.length() >= it->length()) if (f.compare(f.length() - it->length(), ...) == 0)
EndsWithBad(f, s) == Len(f) >= Len(s) /\ CompareEq(f, 0, Len(s), s)
EndsWith(f, s) == Len(f) >= Len(s) /\ CompareEq(f, Len(f) - Len(s), Len(s), s)

\* the for loop over myWhitelist from entry i on, leaving at the first match
RECURSIVE MatchFrom(_, _, _)
MatchFrom(f, wl, i) ==
    IF i > Len(wl) THEN FALSE
    ELSE IF EndsWith(f, wl[i]) THEN TRUE
    ELSE MatchFrom(f, wl, i + 1)

\* instFilename: the original location's filename, or the location's own
\* when that one is empty
InstFilename(loc) == IF loc.orig = <<>> THEN loc.imm ELSE loc.orig

\* instrumentBlock at line 175
InstrumentBlock(wl, loc) ==
    IF loc.unknown THEN FALSE
    ELSE IF InstFilename(loc) = <<>> THEN FALSE
    ELSE MatchFrom(InstFilename(loc), wl, 1)

\* the block gets past "if (!myWhitelist.empty()) { ... continue; }"
PassesWhitelist(wl, loc) == wl = <<>> \/ InstrumentBlock(wl, loc)

---------------------------------------------------------------------------
(* runOnModule: the density draw and cur_loc (lines 178-182) *)

\* types.h: R(x) is random() % x, a value of 0 .. x-1
R(x) == 0..(x - 1)

DensityDraws == {d \in DrawSamples : d \in R(100)}

\* cur_loc = R(MAP_SIZE), among the outcomes S
CurLocsBad(S) == {c \in S : c \in R(MAP_SIZE + 1)}
CurLocs(S) == {c \in S : c \in R(MAP_SIZE)}

\* if (R(100) >= inst_ratio) continue;
DensityRejectBad(d, ratio) == d + 1 >= ratio
DensityReject(d, ratio) == d >= ratio

\* one iteration of the loop over the blocks
LoopBody ==
    /\ pc = "loop"
    /\ bbi < Len(M)
    /\ bbi' = bbi + 1
    /\ \E d \in DensityDraws, c \in CurLocs(LocSamples) :
         IF ~PassesWhitelist(myWhitelist, M[bbi + 1].loc)
         THEN /\ M' = [M EXCEPT ![bbi + 1].fate = "filtered"]
              /\ UNCHANGED inst_blocks
         ELSE IF DensityReject(d, inst_ratio)
         THEN /\ M' = [M EXCEPT ![bbi + 1].fate = "rejected"]
              /\ UNCHANGED inst_blocks
         ELSE /\ M' = [M EXCEPT ![bbi + 1].fate = "instrumented",
                                ![bbi + 1].code = c]
              /\ inst_blocks' = inst_blocks + 1
    /\ UNCHANGED <<pc, envWhitelist, envRatio, myWhitelist, inst_ratio,
                   globals, run, firstPositions>>
    /\ UNCHANGED <<rvars, tvars>>

\* the loop ends; the report is printed and runOnModule returns
LoopExit ==
    /\ pc = "loop"
    /\ bbi = Len(M)
    /\ pc' = "done"
    /\ UNCHANGED <<envWhitelist, envRatio, myWhitelist, inst_ratio, globals,
                   M, bbi, inst_blocks, run, firstPositions>>
    /\ UNCHANGED <<rvars, tvars>>

InstrumentedPositions(m) == {i \in 1..Len(m) : m[i].code # NoInst}

\* the engine is run again, with the same environment, over a fresh copy of
\* the module
Rerun ==
    /\ pc = "done"
    /\ run = 1
    /\ run' = 2
    /\ firstPositions' = InstrumentedPositions(M)
    /\ M' = Fresh(M)
    /\ pc' = "ctor"
    /\ myWhitelist' = <<>>
    /\ inst_ratio' = 100
    /\ globals' = {}
    /\ bbi' = 0
    /\ inst_blocks' = 0
    /\ UNCHANGED <<envWhitelist, envRatio>>
    /\ UNCHANGED <<rvars, tvars>>

---------------------------------------------------------------------------
(* The code emitted into an admitted block (lines 183-210), run by the     *)
(* instrumented program                                                    *)

\* IRB.CreateZExt(PrevLoc, Int64Ty): a 16-bit value read as unsigned
ZExt(p) == p

\* IRB.CreateXor(PrevLocCasted, CurLoc): the offset into the bitmap
EdgeIdBad(cur, p) == ZExt(p) + cur
EdgeId(cur, p) == Xor(ZExt(p), cur)

\* IRB.CreateAdd(Counter, ConstantInt::get(Int8Ty, 1))
IncrBad(counter) == IF counter = ByteWidth - 1 THEN counter ELSE counter + 1
Incr(counter) == (counter + 1) % ByteWidth

\* cur_loc >> 1
ShiftedLocBad(cur) == cur
ShiftedLoc(cur) == cur \div 2

\* ConstantInt::get(Int16Ty, cur_loc >> 1): the value as 16 bits
PrevLocConst(cur) == ShiftedLoc(cur) % PrevLocWidth

\* a cell of the bitmap: the cells never stored to hold the 0 they start with
Cell(bm, i) == IF i \in DOMAIN bm THEN bm[i] ELSE 0

PassIdle ==
    /\ pc = "done"
    /\ envWhitelist = NoEnv
    /\ envRatio = NoRatio
    /\ myWhitelist = <<>>
    /\ inst_ratio = 100
    /\ globals = GlobalNames
    /\ M = <<>>
    /\ bbi = 0
    /\ inst_blocks = 0
    /\ run = 1
    /\ firstPositions = {}

\* the admitted blocks the program runs through, over and over
Bodies == UNION {SeqsOf(CurLocs(RunSamples), n) : n \in 1..MaxBody}

\* the cur_loc of the block executed before the next one
LastBlock == IF nexec = 0 THEN NoInst ELSE body[((nexec - 1) % Len(body)) + 1]

\* one execution of the sequence emitted for the block with constant cur
ExecBlock ==
    /\ nexec < MaxExec
    /\ LET cur == body[(nexec % Len(body)) + 1]
           p   == prev_loc
           idx == EdgeId(cur, p)
       IN  /\ bitmap' = (idx :> Incr(Cell(bitmap, idx))) @@ bitmap
           /\ prev_loc' = PrevLocConst(cur)
           /\ hits' = (idx :> (Cell(hits, idx) + 1)) @@ hits
           /\ edges' = edges \cup {[after |-> LastBlock, cur |-> cur, edge |-> idx]}
           /\ lastExec' = [valid |-> TRUE, after |-> LastBlock, cur |-> cur,
                           prev |-> p, edge |-> idx,
                           ctr |-> Cell(bitmap, idx)]
    /\ nexec' = nexec + 1
    /\ UNCHANGED body
    /\ UNCHANGED <<cvars, tvars>>

---------------------------------------------------------------------------
(* The pass: specifications *)

NoExec == [valid |-> FALSE, after |-> NoInst, cur |-> NoInst, prev |-> 0,
           edge |-> 0, ctr |-> 0]
EmptyMap == [c \in {} |-> 0]

RunInit ==
    /\ prev_loc = 0
    /\ bitmap = EmptyMap
    /\ hits = EmptyMap
    /\ edges = {}
    /\ body = <<>>
    /\ nexec = 0
    /\ lastExec = NoExec

Threads == 1..NumThreads

\* at: the emitted instruction the thread executes next; cur: the block it
\* is in; idx, ctr: its registers; last (history): the block it was in before
ThreadIdle == [at |-> "load_prev", cur |-> NoInst, idx |-> 0, ctr |-> 0,
               last |-> NoInst, n |-> 0]

ThreadInit ==
    /\ th = [t \in Threads |-> ThreadIdle]
    /\ traversed = {}
    /\ written = {}

Init ==
    /\ pc = "ctor"
    /\ envWhitelist \in WhitelistEnvs
    /\ envRatio \in RatioEnvs
    /\ myWhitelist = <<>>
    /\ inst_ratio = 100
    /\ globals = {}
    /\ M = <<>>
    /\ bbi = 0
    /\ inst_blocks = 0
    /\ run = 1
    /\ firstPositions = {}
    /\ RunInit
    /\ ThreadInit

Next ==
    \/ AFLCoverage
    \/ \E m \in ModuleInputs : runOnModule(m)
    \/ LoopBody
    \/ LoopExit

Spec == Init /\ [][Next]_vars

NextTwo ==
    \/ Next
    \/ Rerun

SpecTwo == Init /\ [][NextTwo]_vars

---------------------------------------------------------------------------
(* The instrumented program, sequential *)

InitRun ==
    /\ PassIdle
    /\ prev_loc = 0
    /\ bitmap = EmptyMap
    /\ hits = EmptyMap
    /\ edges = {}
    /\ body \in Bodies
    /\ nexec = 0
    /\ lastExec = NoExec
    /\ ThreadInit

NextRun == ExecBlock

SpecRun == InitRun /\ [][NextRun]_vars

---------------------------------------------------------------------------
(* The instrumented program, multi-threaded: the emitted loads and stores  *)
(* of the threads interleave; nothing is atomic, nothing is locked         *)

\* thread t enters the admitted block cur: LoadInst *PrevLoc, ZExt, Xor, GEP
LoadPrevLoc(t, cur) ==
    /\ th[t].at = "load_prev"
    /\ th[t].n < MaxThreadExec
    /\ th' = [th EXCEPT ![t].at = "load_counter",
                        ![t].cur = cur,
                        ![t].idx = EdgeId(cur, prev_loc)]
    /\ traversed' = traversed \cup {<<th[t].last, cur>>}
    /\ UNCHANGED <<prev_loc, bitmap, written>>
    /\ UNCHANGED <<hits, edges, body, nexec, lastExec>>
    /\ UNCHANGED cvars

\* LoadInst *Counter
LoadCounter(t) ==
    /\ th[t].at = "load_counter"
    /\ th' = [th EXCEPT ![t].at = "store_counter",
                        ![t].ctr = Cell(bitmap, th[t].idx)]
    /\ UNCHANGED <<prev_loc, bitmap, traversed, written>>
    /\ UNCHANGED <<hits, edges, body, nexec, lastExec>>
    /\ UNCHANGED cvars

\* IRB.CreateStore(Incr, MapPtrIdx)
StoreCounter(t) ==
    /\ th[t].at = "store_counter"
    /\ bitmap' = (th[t].idx :> Incr(th[t].ctr)) @@ bitmap
    /\ written' = written \cup {th[t].idx}
    /\ th' = [th EXCEPT ![t].at = "store_prev"]
    /\ UNCHANGED <<prev_loc, traversed>>
    /\ UNCHANGED <<hits, edges, body, nexec, lastExec>>
    /\ UNCHANGED cvars

\* IRB.CreateStore(ConstantInt::get(Int16Ty, cur_loc >> 1), AFLPrevLoc)
StorePrevLoc(t) ==
    /\ th[t].at = "store_prev"
    /\ prev_loc' = PrevLocConst(th[t].cur)
    /\ th' = [th EXCEPT ![t].at = "load_prev",
                        ![t].last = th[t].cur,
                        ![t].n = th[t].n + 1]
    /\ UNCHANGED <<bitmap, traversed, written>>
    /\ UNCHANGED <<hits, edges, body, nexec, lastExec>>
    /\ UNCHANGED cvars

InitMT ==
    /\ PassIdle
    /\ RunInit
    /\ ThreadInit

NextMT ==
    \/ \E t \in Threads, cur \in CurLocs(LocSamples) : LoadPrevLoc(t, cur)
    \/ \E t \in Threads : LoadCounter(t)
    \/ \E t \in Threads : StoreCounter(t)
    \/ \E t \in Threads : StorePrevLoc(t)

SpecMT == InitMT /\ [][NextMT]_vars

---------------------------------------------------------------------------
(* Properties of the whitelist filter (under Spec) *)

Visited(b) == b.fate # "unvisited"
PassedOn(b) == b.fate \in {"rejected", "instrumented"}

\* no filename can be resolved for the block
NoFilename(loc) == loc.unknown \/ (loc.orig = <<>> /\ loc.imm = <<>>)

\* the filename resolved for a block that has one
Resolved(loc) == IF loc.orig # <<>> THEN loc.orig ELSE loc.imm

IsSuffix(s, f) == \E k \in 0..Len(f) : SubSeq(f, 1, k) \o s = f

\* C1 (as claimed): under a non-empty whitelist, a visited block for which no
\* filename can be resolved is passed on to the density step, never filtered.
C1_FailOpen ==
    \A i \in 1..Len(M) :
        (Visited(M[i]) /\ myWhitelist # <<>> /\ NoFilename(M[i].loc))
            => PassedOn(M[i])

\* C2: under a non-empty whitelist, a visited block with a resolved filename
\* f is passed on to the density step if and only if some entry of the
\* whitelist, whatever its place in the list, is a suffix of f.
C2_SuffixMatch ==
    \A i \in 1..Len(M) :
        (Visited(M[i]) /\ myWhitelist # <<>> /\ ~NoFilename(M[i].loc))
            => (PassedOn(M[i])
                  <=> \E s \in Range(myWhitelist) : IsSuffix(s, Resolved(M[i].loc)))

\* a block is let through on an entry that is a proper suffix of its
\* filename and is not the first of the list, and another block is filtered
C2_Witness ==
    /\ Len(myWhitelist) >= 2
    /\ \E i \in 1..Len(M) :
         /\ PassedOn(M[i])
         /\ ~NoFilename(M[i].loc)
         /\ ~IsSuffix(myWhitelist[1], Resolved(M[i].loc))
         /\ \E s \in Range(myWhitelist) :
              Len(s) < Len(Resolved(M[i].loc)) /\ IsSuffix(s, Resolved(M[i].loc))
    /\ \E i \in 1..Len(M) : M[i].fate = "filtered" /\ ~NoFilename(M[i].loc)

---------------------------------------------------------------------------
(* Properties of the configuration errors (under Spec) *)

\* the decimal value of the digits from position i on, capped at 1000
RECURSIVE CappedValue(_, _, _)
CappedValue(s, i, acc) ==
    IF i <= Len(s) /\ IsDigit(s[i])
    THEN CappedValue(s, i + 1,
                     IF (acc * 10) + DigitVal(s[i]) > 1000 THEN 1000
                     ELSE (acc * 10) + DigitVal(s[i]))
    ELSE acc

\* the string starts (after white space and a "+") with a number of 1..100
RatioInRange(s) ==
    LET i0 == SkipSpaces(s, 1)
        i1 == IF i0 <= Len(s) /\ s[i0] = "+" THEN i0 + 1 ELSE i0
    IN  /\ i1 <= Len(s)
        /\ IsDigit(s[i1])
        /\ CappedValue(s, i1, 0) \in 1..100

NothingInstrumented ==
    /\ pc \in {"ctor", "ready", "fatal"}
    /\ globals = {}
    /\ \A i \in 1..Len(M) : M[i].code = NoInst /\ ~Visited(M[i])

\* C6 (as claimed): a run whose AFL_INST_RATIO holds no number of 1..100, or
\* whose AFL_INST_WHITELIST names a file that cannot be opened, never gets to
\* declare a global, to enter the loop or to modify a block.
C6_BadConfigAborts ==
    /\ (envRatio.set /\ ~RatioInRange(envRatio.text)) => NothingInstrumented
    /\ (envWhitelist.set /\ ~envWhitelist.opens)
          => (pc \in {"ctor", "fatal"} /\ globals = {} /\ M = <<>>)

---------------------------------------------------------------------------
(* Property of two runs of the engine (under SpecTwo) *)

SecondRunDone == run = 2 /\ pc = "done"

\* C7 (as claimed): the second run, with the same whitelist and ratio over a
\* copy of the same module, instruments the same positions as the first,
\* whatever the draws of the two runs.
C7_SamePositions ==
    SecondRunDone => InstrumentedPositions(M) = firstPositions

\* C7 (amended): it does when the ratio is 100.
C7_SamePositionsAtFullRatio ==
    (SecondRunDone /\ inst_ratio = 100)
        => InstrumentedPositions(M) = firstPositions

\* both runs are over, at ratio 100, under a whitelist that let a block
\* through and filtered another
C7_Witness ==
    /\ SecondRunDone
    /\ inst_ratio = 100
    /\ firstPositions # {}
    /\ \E i \in 1..Len(M) : M[i].fate = "filtered"

---------------------------------------------------------------------------
(* Properties of the emitted code, sequential (under SpecRun) *)

AAfterB == lastExec.valid /\ lastExec.cur = 300 /\ lastExec.after = 100

\* C4 (as claimed): block 300 executing right after block 100 increments
\* cell 350 and leaves prev_loc = 150.
C4_WorkedExample ==
    AAfterB =>
        /\ lastExec.prev = 50
        /\ lastExec.edge = 350
        /\ prev_loc = 150

\* C4 (amended): block 300 executing right after block 100 increments cell
\* 300 XOR 50 = 286 and leaves prev_loc = 150.
C4_WorkedExampleXor ==
    AAfterB =>
        /\ lastExec.prev = 50
        /\ lastExec.edge = 286
        /\ Cell(bitmap, 286) = (lastExec.ctr + 1) % ByteWidth
        /\ prev_loc = 150

C4_Witness == AAfterB /\ Cell(bitmap, 286) = 1

SelfLoop == lastExec.valid /\ lastExec.cur = 300 /\ lastExec.after = 300

\* C5 (as claimed): block 300 executing twice in a row updates cell 450 the
\* second time, not cell 0.
C5_SelfLoop ==
    SelfLoop => (lastExec.edge = 450 /\ lastExec.edge # 0)

\* C5 (amended): block 300 executing twice in a row updates cell
\* 300 XOR 150 = 442 the second time, not cell 0.
C5_SelfLoopXor ==
    SelfLoop =>
        /\ lastExec.prev = 150
        /\ lastExec.edge = 442
        /\ lastExec.edge # 0
        /\ 442 \in DOMAIN bitmap

C5_Witness == SelfLoop /\ nexec = 2 /\ Cell(bitmap, 442) = 1

\* C8: when two blocks with distinct cur_loc executed one right after the
\* other in both orders, the two executions computed different cells.
C8_Asymmetric ==
    \A e1 \in edges, e2 \in edges :
        (/\ e1.after # NoInst
         /\ e1.after # e1.cur
         /\ e2.after = e1.cur
         /\ e2.cur = e1.after)
            => e1.edge # e2.edge

C8_Witness ==
    \E e1 \in edges, e2 \in edges :
        /\ e1.after # NoInst
        /\ e1.after # e1.cur
        /\ e2.after = e1.cur
        /\ e2.cur = e1.after
        /\ e1.cur = MAP_SIZE - 1

\* C10 (as claimed): a cell is non-zero if and only if some execution
\* computed its offset.
C10_NonZeroIffObserved ==
    \A c \in DOMAIN hits \cup DOMAIN bitmap :
        Cell(bitmap, c) # 0 <=> Cell(hits, c) >= 1

\* C10 (amended): a cell holds the number of executions that computed its
\* offset modulo 256: it is non-zero if and only if that number is no
\* multiple of 256, and the 256th increment takes it back to zero.
C10_CountModulo ==
    \A c \in DOMAIN hits \cup DOMAIN bitmap :
        /\ Cell(bitmap, c) = Cell(hits, c) % ByteWidth
        /\ Cell(bitmap, c) # 0 <=> Cell(hits, c) % ByteWidth # 0

\* a cell was incremented 256 times and is zero again
C10_Witness ==
    \E c \in DOMAIN hits : hits[c] = ByteWidth /\ Cell(bitmap, c) = 0

---------------------------------------------------------------------------
(* Property of the emitted code, multi-threaded (under SpecMT) *)

\* the cell of the edge p -> cur; a thread's first block has no p and is
\* taken to be entered from the start, where prev_loc is 0
EdgeCell(p, cur) == IF p = NoInst THEN Xor(cur, 0) ELSE Xor(cur, p \div 2)

\* C9 (as claimed): every cell stored to is the cell of an edge that one
\* thread traversed.
C9_TouchedCellsFaithful ==
    \A c \in written : \E e \in traversed : c = EdgeCell(e[1], e[2])

====
